---- MODULE Spec2Model ----
(***************************************************************************)
(* tdparser: the lexer (Lexer._get_token, Lexer.lex, Lexer.parse) and the  *)
(* top-down operator-precedence parser (Parser) of tdparser/topdown.py,    *)
(* with the token types of tests/test_full.py as the grammars it runs on.  *)
(*                                                                         *)
(* A text is a sequence of one-character strings.  A token is a record     *)
(* [kind, text]: kind is the name of the token class, text the matched     *)
(* characters.  The lexer is a generator: it runs only while a consumer    *)
(* (list(...) or the Parser) is blocked in next().                         *)
(***************************************************************************)
EXTENDS Integers, Sequences, FiniteSets, TLC

VARIABLES
    tokens,         \* Lexer.tokens: the registered (token class, regexp) list
    blank_chars,    \* Lexer.blank_chars
    op,             \* the call under way: "lex" (list(lexer.lex(t))), "parse"
                    \*   (lexer.parse(t)), "tokens" (Parser(ts).parse()) or
                    \*   "get_token" (lexer._get_token(t))
    input,          \* the text, or the token sequence, the call was given
    text,           \* Lexer.lex: the local variable text (unconsumed remainder);
                    \*   of a list iterator: the items it has not returned yet
    g_state,        \* the generator: "start", "running", "yield", "yield_end",
                    \*   "done" (StopIteration) or "raised"
    g_match,        \* match.end() of the token the generator is suspended on
    produced,       \* the tokens yielded so far, in order
    current_token,  \* Parser.current_token
    current_pos,    \* Parser.current_pos
    consumed,       \* the tokens Parser.consume has returned, in order (a record
                    \*   of the call's past, not a field of Parser)
    stack,          \* the Python call stack below Lexer.parse, innermost last
    outcome,        \* "running", "returned" or "raised"
    result,         \* the value returned by the call
    error,          \* the exception that ended the call
    other           \* a second call on the same Lexer, not being advanced now
                    \*   (its op, input, text, ..., error), or NoCall

vars == <<tokens, blank_chars, op, input, text, g_state, g_match, produced,
          current_token, current_pos, consumed, stack, outcome, result, error,
          other>>

lexer_vars == <<tokens, blank_chars>>
gen_vars == <<text, g_state, g_match, produced>>
parser_vars == <<current_token, current_pos, stack>>

----------------------------------------------------------------------------
(* Bounds *)

\* longest text given to a lexer of plain token types
MaxLen == 3
\* most register_token calls made on a lexer of plain token types
MaxReg == 3
\* longest text given to the arithmetic lexer
MaxExprLen == 5
\* longest text given to the bracket lexer
MaxParenLen == 6
\* most tokens pulled from a generator that goes on yielding tokens of no
\* character (the text is not shortened, and the loop of lex has no end)
MaxYield == 12
\* longest token sequence given to Parser directly
MaxRaw == 2
\* longest text given to the lexer of RightMinus and Bang
MaxOpLen == 5
\* longest text of each of two calls made on one lexer
MaxPairLen == 2
\* longest arithmetic text with characters the lexer has no token for
MaxTailLen == 4

----------------------------------------------------------------------------
(* Sequences of characters *)

Drop(s, n) == SubSeq(s, n + 1, Len(s))

IsPrefix(p, s) == Len(p) <= Len(s) /\ SubSeq(s, 1, Len(p)) = p

InSeq(c, s) == \E i \in 1..Len(s) : s[i] = c

Strs(A, n) == UNION {[1..k -> A] : k \in 0..n}

----------------------------------------------------------------------------
(* Regular expressions: the patterns the lexers are built with.            *)
(*   lit  : a literal string            re.compile(r'aa'), r'\(', r'\+'    *)
(*   plus : one or more of a class      re.compile(r'[0-9]+')              *)
(*   star : zero or more of a class     re.compile(r'a*')                  *)

Lit(s) == [op |-> "lit", arg |-> s]
Plus(cls) == [op |-> "plus", arg |-> cls]
Star(cls) == [op |-> "star", arg |-> cls]

Digits == <<"0", "1", "2", "3", "4", "5", "6", "7", "8", "9">>

\* the number of leading characters of s that are in the class
RECURSIVE RunLen(_, _)
RunLen(cls, s) ==
    IF s = <<>> \/ ~InSeq(Head(s), cls) THEN 0 ELSE 1 + RunLen(cls, Tail(s))

\* regexp.match(text): a match object, of which only end() is kept (a match
\* is anchored at the start of the text, so start() is 0), or None.
\* A match object is true in a condition even when it matched no character.
Match(n) == [matched |-> TRUE, end |-> n]

NoMatch == [matched |-> FALSE, end |-> 0]

re_match(regexp, s) ==
    IF regexp.op = "lit"
    THEN IF IsPrefix(regexp.arg, s) THEN Match(Len(regexp.arg)) ELSE NoMatch
    ELSE IF regexp.op = "plus"
    THEN IF RunLen(regexp.arg, s) >= 1 THEN Match(RunLen(regexp.arg, s)) ELSE NoMatch
    ELSE Match(RunLen(regexp.arg, s))

----------------------------------------------------------------------------
(* Token classes *)

Token(kind, txt) == [kind |-> kind, text |-> txt]

EndToken == Token("EndToken", <<>>)

NoToken == Token("None", <<>>)

\* lbp with the values of Add and Mult exchanged
lbp_exchanged(kind) ==
    CASE kind = "Add" -> 20
      [] kind = "Minus" -> 10
      [] kind = "Mult" -> 10
      [] kind = "RightMinus" -> 10
      [] kind = "Bang" -> 10
      [] OTHER -> 0

\* Left binding power: Token.lbp, overridden by Add, Minus and Mult, and by
\* two token types written after them:
\*   class RightMinus(Token):
\*       lbp = 10
\*       def led(self, left, context):
\*           return left - context.expression(self.lbp - 1)
\*   class Bang(Token):
\*       lbp = 10
lbp(kind) ==
    CASE kind = "Add" -> 10
      [] kind = "Minus" -> 10
      [] kind = "Mult" -> 20
      [] kind = "RightMinus" -> 10
      [] kind = "Bang" -> 10
      [] OTHER -> 0

isinstance(tok, class) == tok.kind = class

\* int(text) of a string of decimal digits
DigitValue(c) == CHOOSE d \in 0..9 : Digits[d + 1] = c

RECURSIVE int(_)
int(s) == IF s = <<>> THEN 0 ELSE 10 * int(SubSeq(s, 1, Len(s) - 1)) + DigitValue(s[Len(s)])

----------------------------------------------------------------------------
(* Lexer construction: Lexer.__init__ followed by register_token calls     *)

register_token(toks, token_class, regexp) == Append(toks, <<token_class, regexp>>)

\* Lexer.__init__: the registry after construction
Lexer_init(default_tokens) ==
    IF default_tokens
    THEN register_token(register_token(<<>>, "LeftParen", Lit(<<"(">>)),
                        "RightParen", Lit(<<")">>))
    ELSE <<>>

DefaultBlankChars == {" ", "\t"}

\* tests/test_lexer.py, test_lex_custom_blank_chars: blank_chars=('a', ' ')
CustomBlankChars == {"a", " "}

\* tests/test_full.py, ArithmeticParserTestCase.setUp
ArithmeticLexer ==
    register_token(register_token(register_token(register_token(
        Lexer_init(TRUE),
        "Integer", Plus(Digits)),
        "Add", Lit(<<"+">>)),
        "Minus", Lit(<<"-">>)),
        "Mult", Lit(<<"*">>))

\* the arithmetic lexer with RightMinus ('~') and Bang ('!') for Add and Mult
OperatorLexer ==
    register_token(register_token(register_token(register_token(
        Lexer_init(TRUE),
        "Integer", Plus(Digits)),
        "Minus", Lit(<<"-">>)),
        "RightMinus", Lit(<<"~">>)),
        "Bang", Lit(<<"!">>))

\* tests/test_full.py, ParenthesizedParserTestCase.setUp: its own LeftParen
\* and RightParen classes, here PLeftParen and PRightParen
ParenthesizedLexer ==
    register_token(register_token(
        Lexer_init(FALSE),
        "PLeftParen", Lit(<<"(">>)),
        "PRightParen", Lit(<<")">>))

\* Plain token types (tests/test_lexer.py: class AToken(tdparser.Token): pass)
\* with the patterns they may be registered with
PlainEntries ==
    { <<"AToken", Lit(<<"a">>)>>,
      <<"BToken", Lit(<<"a", "a">>)>>,
      <<"CToken", Lit(<<"a", "a">>)>>,
      <<"DToken", Star(<<"a">>)>>,
      <<"EToken", Lit(<<"a", "b">>)>> }

\* every registry made by at most MaxReg register_token calls on Lexer(False)
PlainLexers == UNION {[1..k -> PlainEntries] : k \in 0..MaxReg}

----------------------------------------------------------------------------
(* Lexer._get_token: the first registered entry whose regexp matches.      *)
(* The result is (kind, match); kind "None" stands for (None, None).       *)

RECURSIVE get_token_from(_, _, _)
get_token_from(toks, i, s) ==
    IF i > Len(toks) THEN <<"None", NoMatch>>
    ELSE IF re_match(toks[i][2], s).matched THEN <<toks[i][1], re_match(toks[i][2], s)>>
    ELSE get_token_from(toks, i + 1, s)

get_token(toks, s) == get_token_from(toks, 1, s)

----------------------------------------------------------------------------
(* Exceptions *)

ParserSyntaxError(msg, pos, tok, expected) ==
    [type |-> "ParserSyntaxError", msg |-> msg, pos |-> pos, tok |-> tok,
     expected |-> expected, char |-> "", text |-> <<>>]

ValueError(msg, char, rest) ==
    [type |-> "ValueError", msg |-> msg, pos |-> 0, tok |-> NoToken,
     expected |-> "", char |-> char, text |-> rest]

NoError ==
    [type |-> "None", msg |-> "", pos |-> 0, tok |-> NoToken,
     expected |-> "", char |-> "", text |-> <<>>]

----------------------------------------------------------------------------
(* Stack frames.  fn is "__init__", "parse", "expression", "nud" or "led";  *)
(* tok is                                                                  *)
(* the token whose nud or led runs (self); prev is the token the frame's   *)
(* last consume() returned; val is the value its last call returned (in an *)
(* expression frame, the local variable left); acc is the list contents of *)
(* the bracket-collecting nud.                                             *)

Frame(fn, pc, rbp, tok, left) ==
    [fn |-> fn, pc |-> pc, rbp |-> rbp, tok |-> tok, prev |-> NoToken,
     left |-> left, val |-> "None", acc |-> <<>>]

Top == stack[Len(stack)]

Running == outcome = "running" /\ g_state # "running"

At(fn, pc) == Running /\ stack # <<>> /\ Top.fn = fn /\ Top.pc = pc

SetTop(f) == [stack EXCEPT ![Len(stack)] = f]

\* a call: the caller goes on at pc when the callee returns
Call(pc, callee) == Append(SetTop([Top EXCEPT !.pc = pc]), callee)

\* return v: to the caller's val; Parser.parse returns to Lexer.parse,
\* which returns to its caller
Return(v) ==
    IF Len(stack) = 1
    THEN /\ stack' = <<>>
         /\ outcome' = "returned"
         /\ result' = v
    ELSE /\ stack' = [SubSeq(stack, 1, Len(stack) - 1)
                        EXCEPT ![Len(stack) - 1].val = v]
         /\ UNCHANGED <<outcome, result>>

\* an exception nothing catches: it ends the call
Raise(e) ==
    /\ outcome' = "raised"
    /\ error' = e
    /\ UNCHANGED <<stack, result>>

----------------------------------------------------------------------------
(* The generator Lexer.lex                                                 *)

\* next(generator) on a suspended generator: it runs on from where it was.
\* After yield token_class(matched_text) the next statement is
\* text = text[match.end():]; after yield EndToken() the function ends.
gen_next ==
    /\ g_state' = IF g_state \in {"start", "yield"} THEN "running" ELSE "done"
    /\ text' = IF g_state = "yield" THEN Drop(text, g_match) ELSE text
    /\ UNCHANGED <<g_match, produced>>

\* the token source is the generator of a Lexer.lex call
FromLexer == op \in {"lex", "parse"}

\* lex_yield that does not wait for the consumer to ask for the next token
lex_yield_eager ==
    /\ FromLexer
    /\ g_state = "running"
    /\ text # <<>>
    /\ get_token(tokens, text)[1] # "None"
    /\ get_token(tokens, text)[2].end > 0 \/ Len(produced) < MaxYield
    /\ produced' = Append(produced,
            Token(get_token(tokens, text)[1],
                  SubSeq(text, 1, get_token(tokens, text)[2].end)))
    /\ text' = Drop(text, get_token(tokens, text)[2].end)
    /\ UNCHANGED <<lexer_vars, other, consumed, parser_vars, op, input, g_state, g_match, outcome,
                   result, error>>

\* while text: a token class matched: yield token_class(matched_text)
lex_yield ==
    /\ FromLexer
    /\ g_state = "running"
    /\ text # <<>>
    /\ get_token(tokens, text)[1] # "None"
    /\ get_token(tokens, text)[2].end > 0 \/ Len(produced) < MaxYield
    /\ produced' = Append(produced,
            Token(get_token(tokens, text)[1],
                  SubSeq(text, 1, get_token(tokens, text)[2].end)))
    /\ g_match' = get_token(tokens, text)[2].end
    /\ g_state' = "yield"
    /\ UNCHANGED <<lexer_vars, other, consumed, parser_vars, op, input, text, outcome, result, error>>

\* lex_blank without the test of the token classes before it
lex_blank_any ==
    /\ FromLexer
    /\ g_state = "running"
    /\ text # <<>>
    /\ text[1] \in blank_chars
    /\ text' = Tail(text)
    /\ UNCHANGED <<lexer_vars, other, consumed, parser_vars, op, input, g_state, g_match, produced,
                   outcome, result, error>>

\* elif text[0] in self.blank_chars: text = text[1:]
lex_blank ==
    /\ FromLexer
    /\ g_state = "running"
    /\ text # <<>>
    /\ get_token(tokens, text)[1] = "None"
    /\ text[1] \in blank_chars
    /\ text' = Tail(text)
    /\ UNCHANGED <<lexer_vars, other, consumed, parser_vars, op, input, g_state, g_match, produced,
                   outcome, result, error>>

\* lex_invalid without the test of blank_chars before it
lex_invalid_any ==
    /\ FromLexer
    /\ g_state = "running"
    /\ text # <<>>
    /\ get_token(tokens, text)[1] = "None"
    /\ g_state' = "raised"
    /\ error' = ValueError("Invalid character %s in %s", text[1], text)
    /\ UNCHANGED <<lexer_vars, other, consumed, parser_vars, op, input, text, g_match, produced,
                   outcome, result>>

\* else: raise ValueError('Invalid character %s in %s' % (text[0], text))
lex_invalid ==
    /\ FromLexer
    /\ g_state = "running"
    /\ text # <<>>
    /\ get_token(tokens, text)[1] = "None"
    /\ text[1] \notin blank_chars
    /\ g_state' = "raised"
    /\ error' = ValueError("Invalid character %s in %s", text[1], text)
    /\ UNCHANGED <<lexer_vars, other, consumed, parser_vars, op, input, text, g_match, produced,
                   outcome, result>>

\* the loop is over: yield EndToken()
lex_end ==
    /\ FromLexer
    /\ g_state = "running"
    /\ text = <<>>
    /\ produced' = Append(produced, EndToken)
    /\ g_state' = "yield_end"
    /\ UNCHANGED <<lexer_vars, other, consumed, parser_vars, op, input, text, g_match, outcome,
                   result, error>>

----------------------------------------------------------------------------
(* lexer._get_token(text), called directly as tests/test_lexer.py does     *)

Lexer_get_token ==
    /\ op = "get_token"
    /\ outcome = "running"
    /\ outcome' = "returned"
    /\ result' = get_token(tokens, input)
    /\ UNCHANGED <<lexer_vars, other, consumed, gen_vars, parser_vars, op, input, error>>

----------------------------------------------------------------------------
(* iter(tokens) of a token sequence given to Parser directly: next()       *)
(* returns the items in order, then raises StopIteration                   *)

iter_yield ==
    /\ op = "tokens"
    /\ g_state = "running"
    /\ text # <<>>
    /\ produced' = Append(produced, Head(text))
    /\ text' = Tail(text)
    /\ g_match' = 0
    /\ g_state' = "yield"
    /\ UNCHANGED <<lexer_vars, other, consumed, parser_vars, op, input, outcome, result, error>>

iter_stop ==
    /\ op = "tokens"
    /\ g_state = "running"
    /\ text = <<>>
    /\ g_state' = "done"
    /\ UNCHANGED <<lexer_vars, other, consumed, parser_vars, op, input, text, g_match, produced,
                   outcome, result, error>>

----------------------------------------------------------------------------
(* list(lexer.lex(text)), the way tests/test_lexer.py reads a lexer        *)

list_next ==
    /\ op = "lex"
    /\ outcome = "running"
    /\ g_state \in {"start", "yield", "yield_end"}
    /\ gen_next
    /\ UNCHANGED <<lexer_vars, other, consumed, parser_vars, op, input, outcome, result, error>>

list_return ==
    /\ op = "lex"
    /\ outcome = "running"
    /\ g_state = "done"
    /\ outcome' = "returned"
    /\ result' = produced
    /\ UNCHANGED <<lexer_vars, other, consumed, gen_vars, parser_vars, op, input, error>>

list_raise ==
    /\ op = "lex"
    /\ outcome = "running"
    /\ g_state = "raised"
    /\ outcome' = "raised"
    /\ UNCHANGED <<lexer_vars, other, consumed, gen_vars, parser_vars, op, input, result, error>>

----------------------------------------------------------------------------
(* Parser: construction, _forward, consume                                 *)

\* Lexer.parse: tokens = self.lex(text); parser = Parser(tokens).
\* Parser.__init__ sets current_pos = 0 and calls next(self.tokens).
Lexer_parse ==
    /\ op = "parse"
    /\ outcome = "running"
    /\ stack = <<>>
    /\ g_state = "start"
    /\ gen_next
    /\ current_pos' = 0
    /\ stack' = <<Frame("__init__", "next", 0, NoToken, "None")>>
    /\ UNCHANGED <<lexer_vars, other, consumed, op, input, current_token, outcome, result, error>>

\* Parser(tokens).parse() on a token sequence: Parser.__init__ calls
\* iter(tokens), sets current_pos = 0 and calls next(self.tokens)
Parser_new ==
    /\ op = "tokens"
    /\ outcome = "running"
    /\ stack = <<>>
    /\ g_state = "start"
    /\ gen_next
    /\ current_pos' = 0
    /\ stack' = <<Frame("__init__", "next", 0, NoToken, "None")>>
    /\ UNCHANGED <<lexer_vars, other, consumed, op, input, current_token, outcome, result, error>>

\* Parser.__init__ that reports an empty sequence as a syntax error
Parser_init_syntax_error ==
    /\ At("__init__", "next")
    /\ IF g_state \in {"yield", "yield_end"}
       THEN /\ current_token' = produced[Len(produced)]
            /\ stack' = <<Frame("parse", "start", 0, NoToken, "None")>>
            /\ UNCHANGED <<outcome, result, error>>
       ELSE IF g_state = "done"
       THEN /\ Raise(ParserSyntaxError("No tokens provided.", 0, NoToken, ""))
            /\ UNCHANGED current_token
       ELSE /\ outcome' = "raised"
            /\ UNCHANGED <<current_token, stack, result, error>>
    /\ UNCHANGED <<lexer_vars, other, consumed, gen_vars, op, input, current_pos>>

\* Parser.__init__ gets its first token (StopIteration becomes ValueError);
\* then the caller (Lexer.parse) calls parser.parse()
Parser_init ==
    /\ At("__init__", "next")
    /\ IF g_state \in {"yield", "yield_end"}
       THEN /\ current_token' = produced[Len(produced)]
            /\ stack' = <<Frame("parse", "start", 0, NoToken, "None")>>
            /\ UNCHANGED <<outcome, result, error>>
       ELSE IF g_state = "done"
       THEN /\ Raise(ValueError("No tokens provided.", "", <<>>))
            /\ UNCHANGED current_token
       ELSE /\ outcome' = "raised"
            /\ UNCHANGED <<current_token, stack, result, error>>
    /\ UNCHANGED <<lexer_vars, other, consumed, gen_vars, op, input, current_pos>>

\* where a frame goes on once the _forward of its consume() is over
AfterForward(pc) ==
    CASE pc = "forward_nud" -> "nud"
      [] pc = "forward_led" -> "led"
      [] pc = "forward_match" -> "return"

\* consume that advances before it tests the class of the token
consume_late(expect_class, pc) ==
    /\ IF expect_class # "None" /\ ~isinstance(current_token, expect_class)
       THEN /\ Raise(ParserSyntaxError("Unexpected token at %d: got %r, expected %s",
                                       current_pos, current_token, expect_class))
            /\ gen_next
       ELSE /\ stack' = SetTop([Top EXCEPT !.prev = current_token, !.pc = pc])
            /\ gen_next
            /\ UNCHANGED <<outcome, result, error>>
    /\ UNCHANGED <<lexer_vars, other, consumed, op, input, current_token, current_pos>>

\* Parser.consume(expect_class), called by the top frame, up to the
\* next(self.tokens) of _forward; the frame goes on at pc
consume(expect_class, pc) ==
    /\ IF expect_class # "None" /\ ~isinstance(current_token, expect_class)
       THEN /\ Raise(ParserSyntaxError("Unexpected token at %d: got %r, expected %s",
                                       current_pos, current_token, expect_class))
            /\ UNCHANGED gen_vars
       ELSE /\ stack' = SetTop([Top EXCEPT !.prev = current_token, !.pc = pc])
            /\ gen_next
            /\ UNCHANGED <<outcome, result, error>>
    /\ UNCHANGED <<lexer_vars, other, consumed, op, input, current_token, current_pos>>

\* _forward that adds one to the position before it calls next(self.tokens)
Parser_forward_count_first ==
    /\ Running
    /\ stack # <<>>
    /\ Top.pc \in {"forward_nud", "forward_led", "forward_match"}
    /\ IF g_state \in {"yield", "yield_end"}
       THEN /\ current_token' = produced[Len(produced)]
            /\ current_pos' = current_pos + 1
            /\ consumed' = Append(consumed, Top.prev)
            /\ stack' = SetTop([Top EXCEPT !.pc = AfterForward(Top.pc)])
            /\ UNCHANGED <<outcome, result, error>>
       ELSE IF g_state = "done"
       THEN /\ Raise(ParserSyntaxError("Unexpected end of token stream at %d.",
                                       current_pos + 1, NoToken, ""))
            /\ current_pos' = current_pos + 1
            /\ UNCHANGED <<current_token, consumed>>
       ELSE /\ outcome' = "raised"
            /\ current_pos' = current_pos + 1
            /\ UNCHANGED <<current_token, consumed, stack, result, error>>
    /\ UNCHANGED <<lexer_vars, other, gen_vars, op, input>>

\* _forward that sets the position to the number of tokens pulled
Parser_forward_pulled ==
    /\ Running
    /\ stack # <<>>
    /\ Top.pc \in {"forward_nud", "forward_led", "forward_match"}
    /\ IF g_state \in {"yield", "yield_end"}
       THEN /\ current_token' = produced[Len(produced)]
            /\ current_pos' = Len(produced)
            /\ consumed' = Append(consumed, Top.prev)
            /\ stack' = SetTop([Top EXCEPT !.pc = AfterForward(Top.pc)])
            /\ UNCHANGED <<outcome, result, error>>
       ELSE IF g_state = "done"
       THEN /\ Raise(ParserSyntaxError("Unexpected end of token stream at %d.",
                                       current_pos, NoToken, ""))
            /\ UNCHANGED <<current_token, current_pos, consumed>>
       ELSE /\ outcome' = "raised"
            /\ UNCHANGED <<current_token, current_pos, consumed, stack, result, error>>
    /\ UNCHANGED <<lexer_vars, other, gen_vars, op, input>>

\* Parser._forward, from the return of next(self.tokens); when it returns,
\* consume returns the token it had saved
Parser_forward ==
    /\ Running
    /\ stack # <<>>
    /\ Top.pc \in {"forward_nud", "forward_led", "forward_match"}
    /\ IF g_state \in {"yield", "yield_end"}
       THEN /\ current_token' = produced[Len(produced)]
            /\ current_pos' = current_pos + 1
            /\ consumed' = Append(consumed, Top.prev)
            /\ stack' = SetTop([Top EXCEPT !.pc = AfterForward(Top.pc)])
            /\ UNCHANGED <<outcome, result, error>>
       ELSE IF g_state = "done"
       THEN /\ Raise(ParserSyntaxError("Unexpected end of token stream at %d.",
                                       current_pos, NoToken, ""))
            /\ UNCHANGED <<current_token, current_pos, consumed>>
       ELSE /\ outcome' = "raised"
            /\ UNCHANGED <<current_token, current_pos, consumed, stack, result, error>>
    /\ UNCHANGED <<lexer_vars, other, gen_vars, op, input>>

----------------------------------------------------------------------------
(* Parser.parse: return self.expression()                                  *)

Parser_parse ==
    /\ At("parse", "start")
    /\ stack' = Call("return", Frame("expression", "start", 0, NoToken, "None"))
    /\ UNCHANGED <<lexer_vars, other, consumed, gen_vars, op, input, current_token, current_pos,
                   outcome, result, error>>

\* parse that refuses input left after the expression
Parser_parse_return_strict ==
    /\ At("parse", "return")
    /\ IF current_token.kind = "EndToken"
       THEN Return(Top.val) /\ UNCHANGED error
       ELSE Raise(ParserSyntaxError("Unfinished token flow.", -1, NoToken, ""))
    /\ UNCHANGED <<lexer_vars, other, consumed, gen_vars, op, input, current_token, current_pos>>

\* parse that goes over the text left after the lookahead and fails on a
\* character of it that is neither blank nor the start of a token
Parser_parse_return_scanned ==
    /\ At("parse", "return")
    /\ LET left == IF g_state = "yield" THEN Drop(text, g_match) ELSE text
           bad == {i \in 1..Len(left) : /\ get_token(tokens, Drop(left, i - 1))[1] = "None"
                                        /\ left[i] \notin blank_chars}
       IN  IF FromLexer /\ bad # {}
           THEN LET i == CHOOSE j \in bad : \A k \in bad : j <= k
                IN  Raise(ValueError("Invalid character %s in %s", left[i], Drop(left, i - 1)))
           ELSE Return(Top.val) /\ UNCHANGED error
    /\ UNCHANGED <<lexer_vars, other, consumed, gen_vars, op, input, current_token, current_pos>>

Parser_parse_return ==
    /\ At("parse", "return")
    /\ Return(Top.val)
    /\ UNCHANGED <<lexer_vars, other, consumed, gen_vars, op, input, current_token, current_pos, error>>

----------------------------------------------------------------------------
(* Parser.expression(rbp)                                                  *)

\* prev_token = self.consume()
expression_consume ==
    /\ At("expression", "start")
    /\ consume("None", "forward_nud")

\* left = prev_token.nud(context=self)
expression_nud ==
    /\ At("expression", "nud")
    /\ stack' = Call("loop", Frame("nud", "start", 0, Top.prev, "None"))
    /\ UNCHANGED <<lexer_vars, other, consumed, gen_vars, op, input, current_token, current_pos,
                   outcome, result, error>>

\* the loop condition with <= for <
expression_cond_le(rbp, tok) == rbp <= lbp(tok.kind)

\* the condition of: while rbp < self.current_token.lbp
expression_cond(rbp, tok) == rbp < lbp(tok.kind)

\* the loop goes on: prev_token = self.consume()
expression_while ==
    /\ At("expression", "loop")
    /\ expression_cond(Top.rbp, current_token)
    /\ consume("None", "forward_led")

\* left = prev_token.led(left, context=self)
expression_led ==
    /\ At("expression", "led")
    /\ stack' = Call("loop", Frame("led", "start", 0, Top.prev, Top.val))
    /\ UNCHANGED <<lexer_vars, other, consumed, gen_vars, op, input, current_token, current_pos,
                   outcome, result, error>>

\* the loop is over: return left
expression_return ==
    /\ At("expression", "loop")
    /\ ~expression_cond(Top.rbp, current_token)
    /\ Return(Top.val)
    /\ UNCHANGED <<lexer_vars, other, consumed, gen_vars, op, input, current_token, current_pos, error>>

----------------------------------------------------------------------------
(* nud and led of the token classes                                        *)

HasNud == {"Integer", "Minus", "LeftParen", "PLeftParen"}
HasLed == {"Add", "Minus", "Mult", "RightMinus"}

\* Token.nud and EndToken.nud
Token_nud(tok, pos) ==
    IF tok.kind = "EndToken"
    THEN ParserSyntaxError("Empty token flow.", -1, NoToken, "")
    ELSE ParserSyntaxError("Unexpected token %s at the left of an expression (pos: %d)",
                           pos, tok, "")

\* Token.led and EndToken.led
Token_led(tok, pos) ==
    IF tok.kind = "EndToken"
    THEN ParserSyntaxError("Unfinished token flow.", -1, NoToken, "")
    ELSE ParserSyntaxError("Unexpected token %s in the middle of an expression (pos: %d)",
                           pos, tok, "")

\* Token_raise with an inherited led that returns its left operand
Token_raise_led_passes ==
    /\ Running
    /\ stack # <<>>
    /\ Top.pc = "start"
    /\ \/ Top.fn = "nud" /\ Top.tok.kind \notin HasNud
       \/ Top.fn = "led" /\ Top.tok.kind \notin HasLed
    /\ IF Top.fn = "nud"
       THEN Raise(Token_nud(Top.tok, current_pos))
       ELSE Return(Top.left) /\ UNCHANGED error
    /\ UNCHANGED <<lexer_vars, other, consumed, gen_vars, op, input, current_token, current_pos>>

\* a token class that inherits nud (or led) from Token, or is EndToken: it raises
Token_raise ==
    /\ Running
    /\ stack # <<>>
    /\ Top.pc = "start"
    /\ \/ Top.fn = "nud" /\ Top.tok.kind \notin HasNud
       \/ Top.fn = "led" /\ Top.tok.kind \notin HasLed
    /\ Raise(IF Top.fn = "nud" THEN Token_nud(Top.tok, current_pos)
                               ELSE Token_led(Top.tok, current_pos))
    /\ UNCHANGED <<lexer_vars, other, consumed, gen_vars, op, input, current_token, current_pos>>

\* Integer.nud: return self.value, which is int(text)
Integer_nud ==
    /\ At("nud", "start")
    /\ Top.tok.kind = "Integer"
    /\ Return(int(Top.tok.text))
    /\ UNCHANGED <<lexer_vars, other, consumed, gen_vars, op, input, current_token, current_pos, error>>

\* operator_rbp with its own lbp for every operator
operator_rbp_own(kind) == lbp(kind)

\* the rbp a nud or led of an operator parses its right operand with
operator_rbp(kind) == IF kind = "RightMinus" THEN lbp(kind) - 1 ELSE lbp(kind)

\* Minus.nud, Add.led, Minus.led, Mult.led: context.expression(self.lbp);
\* RightMinus.led: context.expression(self.lbp - 1)
operator_expression ==
    /\ Running
    /\ stack # <<>>
    /\ Top.pc = "start"
    /\ \/ Top.fn = "nud" /\ Top.tok.kind = "Minus"
       \/ Top.fn = "led" /\ Top.tok.kind \in HasLed
    /\ stack' = Call("combine",
                     Frame("expression", "start", operator_rbp(Top.tok.kind),
                           NoToken, "None"))
    /\ UNCHANGED <<lexer_vars, other, consumed, gen_vars, op, input, current_token, current_pos,
                   outcome, result, error>>

\* operator_value with a Minus.nud that does not negate
operator_value_plain(fn, kind, left, right) ==
    CASE fn = "nud" /\ kind = "Minus" -> right
      [] fn = "led" /\ kind = "Add" -> left + right
      [] fn = "led" /\ kind = "Minus" -> left - right
      [] fn = "led" /\ kind = "Mult" -> left * right
      [] fn = "led" /\ kind = "RightMinus" -> left - right

\* what Minus.nud, Add.led, Minus.led, Mult.led and RightMinus.led return
operator_value(fn, kind, left, right) ==
    CASE fn = "nud" /\ kind = "Minus" -> 0 - right
      [] fn = "led" /\ kind = "Add" -> left + right
      [] fn = "led" /\ kind = "Minus" -> left - right
      [] fn = "led" /\ kind = "Mult" -> left * right
      [] fn = "led" /\ kind = "RightMinus" -> left - right

operator_return ==
    /\ Running
    /\ stack # <<>>
    /\ Top.pc = "combine"
    /\ Return(operator_value(Top.fn, Top.tok.kind, Top.left, Top.val))
    /\ UNCHANGED <<lexer_vars, other, consumed, gen_vars, op, input, current_token, current_pos, error>>

\* LeftParen.nud that parses its sub-expression with rbp 20
LeftParen_nud_rbp ==
    /\ At("nud", "start")
    /\ Top.tok.kind = "LeftParen"
    /\ stack' = Call("match", Frame("expression", "start", 20, NoToken, "None"))
    /\ UNCHANGED <<lexer_vars, other, consumed, gen_vars, op, input, current_token, current_pos,
                   outcome, result, error>>

\* tdparser.LeftParen.nud: expr = context.expression()
LeftParen_nud ==
    /\ At("nud", "start")
    /\ Top.tok.kind = "LeftParen"
    /\ stack' = Call("match", Frame("expression", "start", 0, NoToken, "None"))
    /\ UNCHANGED <<lexer_vars, other, consumed, gen_vars, op, input, current_token, current_pos,
                   outcome, result, error>>

\* context.consume(expect_class=self.match), match = RightParen
LeftParen_nud_consume ==
    /\ At("nud", "match")
    /\ consume("RightParen", "forward_match")

\* return expr
LeftParen_nud_return ==
    /\ At("nud", "return")
    /\ Top.tok.kind = "LeftParen"
    /\ Return(Top.val)
    /\ UNCHANGED <<lexer_vars, other, consumed, gen_vars, op, input, current_token, current_pos, error>>

\* the bracket-collecting LeftParen.nud of tests/test_full.py:
\* while not isinstance(context.current_token, RightParen):
\*     contents.append(context.expression())
PLeftParen_nud_while ==
    /\ At("nud", "start")
    /\ Top.tok.kind = "PLeftParen"
    /\ ~isinstance(current_token, "PRightParen")
    /\ stack' = Call("append", Frame("expression", "start", 0, NoToken, "None"))
    /\ UNCHANGED <<lexer_vars, other, consumed, gen_vars, op, input, current_token, current_pos,
                   outcome, result, error>>

\* the loop of the bracket-collecting nud with the children put first to last
\* in reverse
PLeftParen_nud_prepend ==
    /\ At("nud", "append")
    /\ stack' = SetTop([Top EXCEPT !.acc = <<Top.val>> \o @, !.pc = "start"])
    /\ UNCHANGED <<lexer_vars, other, consumed, gen_vars, op, input, current_token, current_pos,
                   outcome, result, error>>

PLeftParen_nud_append ==
    /\ At("nud", "append")
    /\ stack' = SetTop([Top EXCEPT !.acc = Append(@, Top.val), !.pc = "start"])
    /\ UNCHANGED <<lexer_vars, other, consumed, gen_vars, op, input, current_token, current_pos,
                   outcome, result, error>>

\* next_token = context.consume(RightParen)
PLeftParen_nud_consume ==
    /\ At("nud", "start")
    /\ Top.tok.kind = "PLeftParen"
    /\ isinstance(current_token, "PRightParen")
    /\ consume("PRightParen", "forward_match")

\* return [self.text] + contents + [next_token.text]
PLeftParen_nud_return ==
    /\ At("nud", "return")
    /\ Top.tok.kind = "PLeftParen"
    /\ Return(<<Top.tok.text>> \o Top.acc \o <<Top.prev.text>>)
    /\ UNCHANGED <<lexer_vars, other, consumed, gen_vars, op, input, current_token, current_pos, error>>

----------------------------------------------------------------------------
(* Two calls on one Lexer.  What a call keeps is in its own frames and     *)
(* objects: the generator of lex has its local text, Lexer.parse its own   *)
(* Parser.  The caller advances one call at a time and may go from one to  *)
(* the other between two token pulls.                                      *)

\* a call that has been made and has not taken a step: lexer.lex(txt) has
\* returned its generator, or lexer.parse(txt) is about to run
NewCall(o, txt) ==
    [op |-> o, input |-> txt, text |-> txt, g_state |-> "start", g_match |-> 0,
     produced |-> <<>>, current_token |-> NoToken, current_pos |-> 0,
     consumed |-> <<>>, stack |-> <<>>, outcome |-> "running", result |-> "None", error |-> NoError]

NoCall == NewCall("None", <<>>)

\* the call being advanced
ThisCall ==
    [op |-> op, input |-> input, text |-> text, g_state |-> g_state,
     g_match |-> g_match, produced |-> produced, current_token |-> current_token,
     current_pos |-> current_pos, consumed |-> consumed, stack |-> stack,
     outcome |-> outcome,
     result |-> result, error |-> error]

\* the call being advanced is between two token pulls: it has not begun,
\* a pull has just come back, or it is over
AtPull ==
    /\ g_state # "running"
    /\ \/ outcome # "running"
       \/ op = "lex"
       \/ stack = <<>>
       \/ stack # <<>> /\ Top.fn = "__init__"
       \/ stack # <<>> /\ Top.pc \in {"forward_nud", "forward_led", "forward_match"}

\* switch with the text of lex kept on the Lexer, one for all calls
switch_shared_text ==
    /\ other.op # "None"
    /\ AtPull
    /\ other' = [ThisCall EXCEPT !.text = other.text]
    /\ op' = other.op
    /\ input' = other.input
    /\ g_state' = other.g_state
    /\ g_match' = other.g_match
    /\ produced' = other.produced
    /\ current_token' = other.current_token
    /\ current_pos' = other.current_pos
    /\ consumed' = other.consumed
    /\ stack' = other.stack
    /\ outcome' = other.outcome
    /\ result' = other.result
    /\ error' = other.error
    /\ UNCHANGED <<lexer_vars, text>>

\* the caller goes on with the other call
switch ==
    /\ other.op # "None"
    /\ AtPull
    /\ other' = ThisCall
    /\ op' = other.op
    /\ input' = other.input
    /\ text' = other.text
    /\ g_state' = other.g_state
    /\ g_match' = other.g_match
    /\ produced' = other.produced
    /\ current_token' = other.current_token
    /\ current_pos' = other.current_pos
    /\ consumed' = other.consumed
    /\ stack' = other.stack
    /\ outcome' = other.outcome
    /\ result' = other.result
    /\ error' = other.error
    /\ UNCHANGED lexer_vars

----------------------------------------------------------------------------
(* The calls made: a lexer, a text, and lex or parse                       *)

ArithmeticChars == {"2", "+", "-", "*", "(", ")", " "}
ParenChars == {"(", ")", " "}
PlainChars == {"a", "b", " "}
OperatorChars == {"2", "-", "~", "!"}
DefaultChars == {"a", "(", ")"}
CustomChars == {"a", " ", "("}
PairChars == {"2", "+", "$"}
TailChars == {"2", "+", ")", "$"}

\* texts of the tests
ArithmeticTests ==
    { <<"2", " ", "*", " ", "3", " ", "+", " ", "2">>,
      <<"2", " ", "*", " ", "(", "3", "+", "2", ")">>,
      <<"(", "2", " ", "+", " ", "2", ")", " ", "*", " ", "2">>,
      <<"-", "-", "-", "-", "1", "3">>,
      <<"-", "1", "3">>,
      <<"-", "-", "1", "3">>,
      <<"-", "2", " ", "*", " ", "-", " ", "4">>,
      <<"-", "-", "2", " ", "*", " ", "-", "2", " ", "*", " ", "-", "2">>,
      <<"2", "+", "3", "*", "2">> }

\* more arithmetic texts: a lexical error after a closed parenthesis, and
\* after a parenthesis that closes nothing
ArithmeticEdges ==
    { <<"(", "2", ")", "$">>,
      <<"(", "2", "+", "2", ")", "$">>,
      <<"2", " ", "+", " ", "3", " ", ")", " ", "$">> }

\* '(((()())())()(()(())(()()()()())))'
ParenthesizedTests ==
    { <<"(", "(", "(", "(", ")", "(", ")", ")", "(", ")", ")", "(", ")",
        "(", "(", ")", "(", "(", ")", ")", "(", "(", ")", "(", ")", "(", ")",
        "(", ")", "(", ")", ")", ")", ")">> }

\* texts lexed with the default token types: '((((((()()()))))))(((((((' and
\* '  ('
DefaultLexTests ==
    { <<"(", "(", "(", "(", "(", "(", "(", ")", "(", ")", "(", ")", ")", ")",
        ")", ")", ")", ")", "(", "(", "(", "(", "(", "(", "(">>,
      <<" ", " ", "(">> }

\* chains of one operator with operands that tell the groupings apart
OperatorTests ==
    { <<"7", "-", "4", "-", "2">>,
      <<"7", "~", "4", "~", "2">>,
      <<"9", "-", "4", "-", "2", "-", "1">>,
      <<"9", "~", "4", "~", "2", "~", "1">> }

\* texts of GetTokenTestCase
GetTokenTests ==
    { <<"a", "a", "(", "(", "(">>,
      <<"(", "(", "(">>,
      <<")", "(">> }

\* tokens of the sequences given to Parser directly
RawTokens == {Token("Integer", <<"2">>), Token("Add", <<"+">>), EndToken}

\* two calls on the lexer (toks, blanks), the first being advanced
StartPair(toks, blanks, c1, c2) ==
    /\ tokens = toks
    /\ blank_chars = blanks
    /\ op = c1.op
    /\ input = c1.input
    /\ text = c1.text
    /\ g_state = c1.g_state
    /\ g_match = c1.g_match
    /\ produced = c1.produced
    /\ current_token = c1.current_token
    /\ current_pos = c1.current_pos
    /\ consumed = c1.consumed
    /\ stack = c1.stack
    /\ outcome = c1.outcome
    /\ result = c1.result
    /\ error = c1.error
    /\ other = c2

Start(toks, blanks, txt, o) == StartPair(toks, blanks, NewCall(o, txt), NoCall)

Init ==
    \E o \in {"lex", "parse"} :
        \/ \E t \in Strs(ArithmeticChars, IF o = "lex" THEN MaxLen ELSE MaxExprLen)
                        \cup ArithmeticTests \cup ArithmeticEdges :
                Start(ArithmeticLexer, DefaultBlankChars, t, o)
        \/ \E t \in Strs(ParenChars, MaxParenLen) \cup ParenthesizedTests :
                Start(ParenthesizedLexer, DefaultBlankChars, t, o)
        \/ \E toks \in PlainLexers : \E t \in Strs(PlainChars, MaxLen) :
                Start(toks, DefaultBlankChars, t, o)
        \/ \E t \in DefaultLexTests :
                o = "lex" /\ Start(Lexer_init(TRUE), DefaultBlankChars, t, o)
        \/ \E t \in Strs(OperatorChars, MaxOpLen) \cup OperatorTests :
                o = "parse" /\ Start(OperatorLexer, DefaultBlankChars, t, o)
        \/ \E toks \in PlainLexers : \E t \in Strs(PlainChars, MaxLen) :
                o = "parse" /\ Start(toks, DefaultBlankChars, t, "get_token")
        \/ \E t \in Strs(DefaultChars, MaxLen) \cup GetTokenTests :
                o = "parse" /\ Start(Lexer_init(TRUE), DefaultBlankChars, t, "get_token")
        \/ \E toks \in {Lexer_init(TRUE)} \cup {r \in PlainLexers : Len(r) <= 1} :
           \E t \in Strs(CustomChars, MaxLen) :
                o = "lex" /\ Start(toks, CustomBlankChars, t, o)
        \/ \E ts \in Strs(RawTokens, MaxRaw) :
                o = "parse" /\ Start(<<>>, {}, ts, "tokens")
        \/ \E t \in Strs(PairChars, MaxPairLen) :
                Start(ArithmeticLexer, DefaultBlankChars, t, o)
        \/ \E t \in Strs(TailChars, MaxTailLen) :
                Start(ArithmeticLexer, DefaultBlankChars, t, o)
        \/ \E o2 \in {"lex", "parse"} : \E t1, t2 \in Strs(PairChars, MaxPairLen) :
                StartPair(ArithmeticLexer, DefaultBlankChars,
                          NewCall(o, t1), NewCall(o2, t2))

Next ==
    \/ lex_yield
    \/ lex_blank
    \/ lex_invalid
    \/ lex_end
    \/ Lexer_get_token
    \/ iter_yield
    \/ iter_stop
    \/ list_next
    \/ list_return
    \/ list_raise
    \/ Lexer_parse
    \/ Parser_new
    \/ Parser_init
    \/ Parser_forward
    \/ Parser_parse
    \/ Parser_parse_return
    \/ expression_consume
    \/ expression_nud
    \/ expression_while
    \/ expression_led
    \/ expression_return
    \/ Token_raise
    \/ Integer_nud
    \/ operator_expression
    \/ operator_return
    \/ LeftParen_nud
    \/ LeftParen_nud_consume
    \/ LeftParen_nud_return
    \/ PLeftParen_nud_while
    \/ PLeftParen_nud_append
    \/ PLeftParen_nud_consume
    \/ PLeftParen_nud_return
    \/ switch

Spec == Init /\ [][Next]_vars

----------------------------------------------------------------------------
(* Helpers of the properties                                               *)

\* the texts of the tokens, one after the other
RECURSIVE ConcatTexts(_)
ConcatTexts(toks) ==
    IF toks = <<>> THEN <<>> ELSE Head(toks).text \o ConcatTexts(Tail(toks))

\* c is t with some characters deleted, each of them a blank character
RECURSIVE DeletesOnlyBlanks(_, _, _)
DeletesOnlyBlanks(c, t, blanks) ==
    IF t = <<>> THEN c = <<>>
    ELSE \/ c # <<>> /\ Head(c) = Head(t) /\ DeletesOnlyBlanks(Tail(c), Tail(t), blanks)
         \/ Head(t) \in blanks /\ DeletesOnlyBlanks(c, Tail(t), blanks)

\* the registered entries whose regexp matches at the start of s
Matching(toks, s) == {i \in 1..Len(toks) : re_match(toks[i][2], s).matched}

MatchEnd(toks, i, s) == re_match(toks[i][2], s).end

\* the matching entries whose match is the longest
Longest(toks, s) ==
    {i \in Matching(toks, s) :
        \A j \in Matching(toks, s) : MatchEnd(toks, j, s) <= MatchEnd(toks, i, s)}

Min(S) == CHOOSE x \in S : \A y \in S : x <= y

NonSentinel(toks) == SelectSeq(toks, LAMBDA t : t.kind # "EndToken")

\* the generator is suspended on a token it has just chosen at the start of text
JustChosen == FromLexer /\ g_state = "yield"

LastProduced == produced[Len(produced)]

----------------------------------------------------------------------------
(* C1: longest match wins.  Whenever the lexer has chosen a token type at  *)
(* the current position, the match of the chosen type is as long as the    *)
(* match of every registered pattern that matches there, whatever the      *)
(* registration order (so 'a'->A, 'aa'->B on "aaa" selects B).             *)
C1_LongestMatchWins ==
    JustChosen =>
        \A i \in Matching(tokens, text) : MatchEnd(tokens, i, text) <= g_match

(* C2: registration-order tie-break.  Whenever patterns of different token *)
(* types match at the current position with the same length and none       *)
(* matches longer, the type chosen is that of the earliest registered of   *)
(* them.                                                                   *)
C2_EarliestOfLongest ==
    (/\ JustChosen
     /\ \E i, j \in Longest(tokens, text) : tokens[i][1] # tokens[j][1])
        => LastProduced.kind = tokens[Min(Longest(tokens, text))][1]

\* s is made only of registered-pattern matches and blank characters: at
\* each position the longest match of a registered pattern is not empty and
\* what follows it is made so too, or nothing matches, the character is a
\* blank character and what follows it is made so
RECURSIVE Composed(_, _, _)
Composed(toks, s, blanks) ==
    IF s = <<>> THEN TRUE
    ELSE IF Matching(toks, s) # {}
    THEN /\ MatchEnd(toks, Min(Longest(toks, s)), s) > 0
         /\ Composed(toks, Drop(s, MatchEnd(toks, Min(Longest(toks, s)), s)), blanks)
    ELSE Head(s) \in blanks /\ Composed(toks, Tail(s), blanks)

\* res ends with an end sentinel, holds exactly one, and the texts of its
\* other tokens, concatenated in order, are s with only blank characters removed
Reconstructs(res, s, blanks) ==
    /\ res # <<>>
    /\ res[Len(res)].kind = "EndToken"
    /\ Cardinality({i \in 1..Len(res) : res[i].kind = "EndToken"}) = 1
    /\ DeletesOnlyBlanks(ConcatTexts(NonSentinel(res)), s, blanks)

(* C5: for every text made only of registered-pattern matches and blank    *)
(* characters, list(lexer.lex(text)) returns a sequence that ends with an  *)
(* end sentinel, holds exactly one end sentinel, and whose other tokens'   *)
(* texts, concatenated in order, are the text with the skipped blank       *)
(* characters removed.                                                     *)
C5_ComposedTextIsLexed ==
    (/\ op = "lex"
     /\ outcome # "running"
     /\ Composed(tokens, input, blank_chars))
        => (outcome = "returned" /\ Reconstructs(result, input, blank_chars))

(* C6: every step of the lexing loop strictly shortens the unconsumed      *)
(* remainder (so that pulling tokens reaches the end sentinel or a lexical *)
(* error): the token the generator is suspended on takes at least one      *)
(* character off the remainder, whatever the registered patterns.          *)
C6_EveryTokenShortensText ==
    JustChosen => Len(Drop(text, g_match)) < Len(text)

(* C7: when no registered pattern matches at the current position and the  *)
(* next character is not a blank character, lex raises the invalid-        *)
(* character error naming that character; the tokens before that position  *)
(* have been yielded, and afterwards no token and no end sentinel is       *)
(* yielded and the call does not return (other' = other: the step is one   *)
(* of this call).  Stated both ways: the step the generator takes at such  *)
(* a position is that raise, and a generator that has raised is at such a  *)
(* position.                                                               *)

\* the loop of lex is at a position where no pattern matches and the next
\* character is not a blank character
AtInvalid ==
    /\ FromLexer
    /\ g_state = "running"
    /\ text # <<>>
    /\ Matching(tokens, text) = {}
    /\ text[1] \notin blank_chars

C7_RaisedState ==
    g_state = "raised" =>
        /\ text # <<>>
        /\ get_token(tokens, text)[1] = "None"
        /\ text[1] \notin blank_chars
        /\ error.type = "ValueError"
        /\ error.msg = "Invalid character %s in %s"
        /\ error.char = text[1]
        /\ error.text = text
        /\ \A i \in 1..Len(produced) : produced[i].kind # "EndToken"
        /\ DeletesOnlyBlanks(ConcatTexts(produced) \o text, input, blank_chars)
        /\ outcome # "returned"

C7_InvalidCharacter ==
    /\ [][AtInvalid =>
            /\ g_state' = "raised"
            /\ error' = ValueError("Invalid character %s in %s", text[1], text)
            /\ text' = text
            /\ produced' = produced
            /\ outcome' = outcome
         ]_vars
    /\ [](C7_RaisedState)
    /\ [][(g_state = "raised" /\ other' = other)
            => (g_state' = "raised" /\ produced' = produced)]_vars

\* a token was yielded, then an invalid character ended the call
C7_Witness ==
    /\ op = "lex"
    /\ outcome = "raised"
    /\ g_state = "raised"
    /\ Len(produced) = 1
    /\ error.char = "b"

----------------------------------------------------------------------------
(* The conventional value of an arithmetic text, by the grammar            *)
(*   sum ::= product ('+' product)*    product ::= atom ('*' atom)*        *)
(*   atom ::= integer | '(' sum ')'                                        *)

RECURSIVE ArithTokens(_)
ArithTokens(s) ==
    IF s = <<>> THEN <<>>
    ELSE IF Head(s) \in DefaultBlankChars THEN ArithTokens(Tail(s))
    ELSE IF InSeq(Head(s), Digits)
    THEN <<[k |-> "int", v |-> int(SubSeq(s, 1, RunLen(Digits, s)))]>>
            \o ArithTokens(Drop(s, RunLen(Digits, s)))
    ELSE <<[k |-> Head(s), v |-> 0]>> \o ArithTokens(Tail(s))

Fail == [ok |-> FALSE, val |-> 0, rest |-> <<>>]

Ok(v, rest) == [ok |-> TRUE, val |-> v, rest |-> rest]

RECURSIVE SumOf(_), SumRest(_, _), ProductOf(_), ProductRest(_, _), AtomOf(_)
AtomOf(ts) ==
    IF ts = <<>> THEN Fail
    ELSE IF ts[1].k = "int" THEN Ok(ts[1].v, Tail(ts))
    ELSE IF ts[1].k = "("
    THEN LET e == SumOf(Tail(ts))
         IN  IF e.ok /\ e.rest # <<>> /\ e.rest[1].k = ")"
             THEN Ok(e.val, Tail(e.rest)) ELSE Fail
    ELSE Fail

ProductRest(acc, ts) ==
    IF ts # <<>> /\ ts[1].k = "*"
    THEN LET a == AtomOf(Tail(ts))
         IN  IF a.ok THEN ProductRest(acc * a.val, a.rest) ELSE Fail
    ELSE Ok(acc, ts)

ProductOf(ts) ==
    LET a == AtomOf(ts) IN IF a.ok THEN ProductRest(a.val, a.rest) ELSE Fail

SumRest(acc, ts) ==
    IF ts # <<>> /\ ts[1].k = "+"
    THEN LET q == ProductOf(Tail(ts))
         IN  IF q.ok THEN SumRest(acc + q.val, q.rest) ELSE Fail
    ELSE Ok(acc, ts)

SumOf(ts) ==
    LET q == ProductOf(ts) IN IF q.ok THEN SumRest(q.val, q.rest) ELSE Fail

WellFormed(s) == SumOf(ArithTokens(s)).ok /\ SumOf(ArithTokens(s)).rest = <<>>

ValueOf(s) == SumOf(ArithTokens(s)).val

(* C3: precedence.  Lexer.parse of a well-formed expression over integer   *)
(* literals, '+', '*' and parentheses, with the arithmetic token types,    *)
(* returns its conventional value: '*' binds tighter than '+' and          *)
(* parentheses group.                                                      *)
C3_Precedence ==
    (/\ op = "parse"
     /\ tokens = ArithmeticLexer
     /\ outcome # "running"
     /\ WellFormed(input))
        => (outcome = "returned" /\ result = ValueOf(input))

\* '2 * (3+2)' has been parsed to 10
C3_Witness ==
    /\ op = "parse"
    /\ outcome = "returned"
    /\ input = <<"2", " ", "*", " ", "(", "3", "+", "2", ")">>
    /\ result = 10

----------------------------------------------------------------------------
(* C4: expression(rbp) consumes one token and calls its nud, then consumes *)
(* the lookahead and calls its led only while the lookahead's lbp is       *)
(* strictly greater than rbp; when expression(rbp) has returned to its     *)
(* caller the lookahead's lbp is <= rbp.                                   *)

\* the top frame has just got the value of the expression(rbp) it called
Returned(pc) == Running /\ stack # <<>> /\ Top.pc = pc

C4_ExpressionLoop ==
    /\ \A i \in 1..Len(stack) :
          (stack[i].fn = "expression" /\ stack[i].pc \in {"forward_led", "led"})
              => lbp(stack[i].prev.kind) > stack[i].rbp
    /\ (At("expression", "nud") \/ At("expression", "led"))
          => (Top.prev = produced[current_pos] /\ current_token = produced[current_pos + 1])
    /\ Returned("combine") => lbp(current_token.kind) <= lbp(Top.tok.kind)
    /\ (Returned("match") \/ Returned("append") \/ At("parse", "return"))
          => lbp(current_token.kind) <= 0

\* expression(10) has returned before a lookahead of lbp 10
C4_Witness ==
    /\ Returned("combine")
    /\ lbp(Top.tok.kind) = 10
    /\ lbp(current_token.kind) = 10

----------------------------------------------------------------------------
(* C8: consume(expected_type) with a lookahead that is no instance of the  *)
(* expected type raises the syntax error and does not advance: lookahead,  *)
(* position and token source are as before the call.                       *)

\* tdparser.LeftParen.nud is about to call consume(RightParen) in vain
Mismatch == At("nud", "match") /\ ~isinstance(current_token, "RightParen")

C8_ConsumeMismatch ==
    [][Mismatch =>
        /\ outcome' = "raised"
        /\ error' = ParserSyntaxError("Unexpected token at %d: got %r, expected %s",
                                      current_pos, current_token, "RightParen")
        /\ current_token' = current_token
        /\ current_pos' = current_pos
        /\ <<text, g_state, g_match, produced>>' = <<text, g_state, g_match, produced>>
      ]_vars

\* '(2': consume(RightParen) has failed on the end sentinel
C8_Witness ==
    /\ outcome = "raised"
    /\ error.expected = "RightParen"
    /\ error.tok = EndToken
    /\ current_token = EndToken
    /\ current_pos = 2
    /\ g_state = "yield_end"

----------------------------------------------------------------------------
(* The first group of a text of brackets, as the nested list               *)
(* ['('] + its child groups + [')'], and what follows it                   *)

Strip(s, blanks) == SelectSeq(s, LAMBDA c : c \notin blanks)

RECURSIVE GroupOf(_), ChildrenOf(_, _)
GroupOf(s) ==
    IF s = <<>> \/ s[1] # "(" THEN Fail ELSE ChildrenOf(<< <<"(">> >>, Tail(s))

ChildrenOf(acc, s) ==
    IF s = <<>> THEN Fail
    ELSE IF s[1] = ")" THEN Ok(Append(acc, <<")">>), Tail(s))
    ELSE LET g == GroupOf(s)
         IN  IF g.ok THEN ChildrenOf(Append(acc, g.val), g.rest) ELSE Fail

FirstGroup == GroupOf(Strip(input, blank_chars))

(* C9: Parser.parse() parses one top-level expression and returns its      *)
(* value without raising when tokens other than the sentinel remain after  *)
(* it: on the bracket grammar, a text whose first group is followed by     *)
(* more brackets yields the value of the first group, and the lookahead is *)
(* then the first token after that group, not the sentinel.                *)
C9_ParseStopsAfterOneExpression ==
    (/\ op = "parse"
     /\ tokens = ParenthesizedLexer
     /\ outcome # "running"
     /\ FirstGroup.ok
     /\ FirstGroup.rest # <<>>)
        => /\ outcome = "returned"
           /\ result = FirstGroup.val
           /\ current_token =
                Token(IF FirstGroup.rest[1] = "(" THEN "PLeftParen" ELSE "PRightParen",
                      <<FirstGroup.rest[1]>>)
           /\ current_pos =
                Len(Strip(input, blank_chars)) - Len(FirstGroup.rest)

\* '()()' has been parsed to ['(', ')'] and the lookahead is the second '('
C9_Witness ==
    /\ op = "parse"
    /\ outcome = "returned"
    /\ input = <<"(", ")", "(", ")">>
    /\ result = << <<"(">>, <<")">> >>
    /\ current_token = Token("PLeftParen", <<"(">>)
    /\ current_pos = 2

----------------------------------------------------------------------------
(* C10: when the lexed text holds no token, so that the token sequence is  *)
(* the end sentinel alone, Lexer.parse fails with the syntax error of the  *)
(* sentinel's null denotation, EndToken.nud, which is the operation that   *)
(* is called and that raises.                                              *)
C10_EmptyInputRaisedByEndTokenNud ==
    (op = "parse" /\ outcome = "raised" /\ produced = <<EndToken>>)
        => /\ error = Token_nud(EndToken, current_pos)
           /\ Top.fn = "nud"
           /\ Top.tok = EndToken

----------------------------------------------------------------------------
(* C11: constructing a Parser from an empty token sequence fails with the  *)
(* invalid-argument condition (ValueError), not a syntax error; that       *)
(* failure happens only when an empty sequence is given to Parser          *)
(* directly, never in Lexer.parse(text): the first pull from a lexed text  *)
(* gives a token (at least the end sentinel) or a lexical error, never the *)
(* end of the sequence.                                                    *)
C11_NoTokensProvided ==
    /\ (op = "tokens" /\ input = <<>> /\ outcome # "running")
          => /\ outcome = "raised"
             /\ error = ValueError("No tokens provided.", "", <<>>)
             /\ error.type # "ParserSyntaxError"
             /\ current_token = NoToken
    /\ (outcome = "raised" /\ error.msg = "No tokens provided.")
          => (op = "tokens" /\ input = <<>>)
    /\ (op = "parse" /\ stack # <<>> /\ Top.fn = "__init__" /\ g_state # "running")
          => g_state \in {"yield", "yield_end", "raised"}

\* Parser(<<>>) has raised
C11_Witness ==
    /\ op = "tokens"
    /\ input = <<>>
    /\ outcome = "raised"
    /\ error.type = "ValueError"

----------------------------------------------------------------------------
(* C12: the built-in left parenthesis, used as a prefix, parses exactly    *)
(* one sub-expression with rbp 0 and then requires the lookahead to be a   *)
(* right parenthesis: if it is, the right parenthesis is consumed and the  *)
(* value of the nud is the value of the sub-expression; if it is any other *)
(* token, the end sentinel included, a syntax error is raised.             *)

\* the top frame is LeftParen.nud at pc
AtLeftParen(pc) == At("nud", pc) /\ Top.tok.kind = "LeftParen"

C12_LeftParenNud ==
    /\ [][AtLeftParen("start") =>
            stack' = Call("match", Frame("expression", "start", 0, NoToken, "None"))
         ]_vars
    /\ [](\A i \in 1..(Len(stack) - 1) :
            (stack[i].fn = "nud" /\ stack[i].tok.kind = "LeftParen")
                => (stack[i].pc = "match" /\ stack[i + 1].fn = "expression"
                        /\ stack[i + 1].rbp = 0))
    /\ [][AtLeftParen("match") =>
            IF isinstance(current_token, "RightParen")
            THEN /\ outcome' = "running"
                 /\ stack' = SetTop([Top EXCEPT !.prev = current_token,
                                                !.pc = "forward_match"])
                 /\ g_state' = "running"
            ELSE /\ outcome' = "raised"
                 /\ error'.type = "ParserSyntaxError"
                 /\ error'.tok = current_token
                 /\ stack' = stack
         ]_vars
    /\ [][AtLeftParen("return") =>
            /\ Top.prev.kind = "RightParen"
            /\ Len(stack') = Len(stack) - 1
            /\ stack'[Len(stack')].val = Top.val
            /\ outcome' = "running"
         ]_vars

\* the nud of the left parenthesis of '(2+2)' is about to return 4
C12_Witness ==
    /\ AtLeftParen("return")
    /\ Top.val = 4
    /\ Top.prev = Token("RightParen", <<")">>)
    /\ current_token = EndToken

----------------------------------------------------------------------------
(* C13: with the Minus token (lbp 10, nud returns -expression(10), led     *)
(* returns left - expression(10)), parsing an integer literal v preceded   *)
(* by n >= 1 minus signs yields (-1)^n * v: '-13' yields -13, '--13'       *)
(* yields 13, '----13' yields 13.                                          *)

\* the number of minus signs s starts with
MinusSigns(s) == RunLen(<<"-">>, s)

\* s is an integer literal preceded by at least one minus sign
NegatedLiteral(s) ==
    /\ MinusSigns(s) >= 1
    /\ Drop(s, MinusSigns(s)) # <<>>
    /\ RunLen(Digits, Drop(s, MinusSigns(s))) = Len(Drop(s, MinusSigns(s)))

C13_MinusSigns ==
    /\ (/\ op = "parse"
        /\ tokens = ArithmeticLexer
        /\ outcome # "running"
        /\ NegatedLiteral(input))
          => /\ outcome = "returned"
             /\ result = (IF MinusSigns(input) % 2 = 0 THEN 1 ELSE -1)
                            * int(Drop(input, MinusSigns(input)))
    /\ \A i \in 1..(Len(stack) - 1) :
          (stack[i].tok.kind = "Minus" /\ stack[i].pc = "combine")
              => (stack[i + 1].fn = "expression" /\ stack[i + 1].rbp = 10)

\* '---2' has been parsed to -2
C13_Witness ==
    /\ op = "parse"
    /\ outcome = "returned"
    /\ input = <<"-", "-", "-", "2">>
    /\ result = -2

----------------------------------------------------------------------------
(* C14: with the bracket-collecting left parenthesis of tests/test_full.py *)
(* parsing a balanced text of brackets yields the nested list of its first *)
(* top-level group, each group being ['('] + the values of its child       *)
(* groups in order + [')']; '(())' yields ['(', ['(', ')'], ')'].          *)

\* s is a sequence of groups
RECURSIVE Groups(_)
Groups(s) == s = <<>> \/ (GroupOf(s).ok /\ Groups(GroupOf(s).rest))

Balanced(s) == s # <<>> /\ Groups(s)

C14_NestedList ==
    (/\ op = "parse"
     /\ tokens = ParenthesizedLexer
     /\ outcome # "running"
     /\ Balanced(Strip(input, blank_chars)))
        => (outcome = "returned" /\ result = FirstGroup.val)

\* '(())' has been parsed to ['(', ['(', ')'], ')']
C14_Witness ==
    /\ op = "parse"
    /\ input = <<"(", "(", ")", ")">>
    /\ outcome = "returned"
    /\ result = << <<"(">>, << <<"(">>, <<")">> >>, <<")">> >>

----------------------------------------------------------------------------
(* C15: a token type that does not define nud fails with a syntax error    *)
(* whenever it is the first token of an expression, and a token type that  *)
(* does not define led fails with a syntax error whenever expression()     *)
(* consumes it after a left operand; in both cases the enclosing parse     *)
(* call produces no value.                                                 *)

\* the token classes that inherit nud, or led, from Token
InheritsNud(tok) == tok.kind \notin HasNud \cup {"EndToken"}
InheritsLed(tok) == tok.kind \notin HasLed \cup {"EndToken"}

C15_InheritedDenotationsFail ==
    /\ [][(At("expression", "nud") /\ InheritsNud(Top.prev)) =>
            stack' = Call("loop", Frame("nud", "start", 0, Top.prev, "None"))
         ]_vars
    /\ [][(At("nud", "start") /\ InheritsNud(Top.tok)) =>
            /\ outcome' = "raised"
            /\ error' = ParserSyntaxError(
                    "Unexpected token %s at the left of an expression (pos: %d)",
                    current_pos, Top.tok, "")
         ]_vars
    /\ [][(At("expression", "led") /\ InheritsLed(Top.prev)) =>
            stack' = Call("loop", Frame("led", "start", 0, Top.prev, Top.val))
         ]_vars
    /\ [][(At("led", "start") /\ InheritsLed(Top.tok)) =>
            /\ outcome' = "raised"
            /\ error' = ParserSyntaxError(
                    "Unexpected token %s in the middle of an expression (pos: %d)",
                    current_pos, Top.tok, "")
         ]_vars
    /\ [](outcome = "raised" => result = "None")
    /\ [][(outcome = "raised" /\ other' = other) => outcome' = "raised"]_vars

\* '2!': the led that Bang inherits has raised after the left operand 2
C15_Witness ==
    /\ outcome = "raised"
    /\ error.type = "ParserSyntaxError"
    /\ error.msg = "Unexpected token %s in the middle of an expression (pos: %d)"
    /\ error.tok = Token("Bang", <<"!">>)
    /\ Top.fn = "led"
    /\ Top.left = 2

----------------------------------------------------------------------------
(* C16: get_token returns (None, None) for the empty text and for any text *)
(* at whose start no registered pattern matches, whatever is registered;   *)
(* matching is anchored at the start of the text, so that a pattern that   *)
(* matches only later in the text does not count ('aa(((' gives (None,     *)
(* None) with the parentheses registered), and every registered entry is   *)
(* tried (')(' selects the right parenthesis, registered second).          *)
C16_GetToken ==
    (op = "get_token" /\ outcome = "returned")
        => /\ (input = <<>> \/ Matching(tokens, input) = {})
                => result = <<"None", NoMatch>>
           /\ (input # <<>> /\ Matching(tokens, input) # {})
                => /\ result[1] # "None"
                   /\ \E i \in Matching(tokens, input) :
                        result = <<tokens[i][1], re_match(tokens[i][2], input)>>
           /\ (tokens = Lexer_init(TRUE) /\ input = <<"a", "a", "(", "(", "(">>)
                => result = <<"None", NoMatch>>
           /\ (tokens = Lexer_init(TRUE) /\ input = <<")", "(">>)
                => result = <<"RightParen", Match(1)>>

----------------------------------------------------------------------------
(* C17: in Lexer.lex a character of blank_chars is skipped (the remainder  *)
(* advanced by exactly one character, no token yielded) only when no       *)
(* registered pattern matches at that position; when a registered pattern  *)
(* matches at a position whose first character is a blank character, a     *)
(* token is yielded instead.  The blank characters are the configured      *)
(* ones: with blank_chars = {'a', ' '} the text ' a(' lexes to one left    *)
(* parenthesis followed by the sentinel.                                   *)

\* the generator is in its loop, at a position where text goes on
InLoop == FromLexer /\ g_state = "running" /\ text # <<>>

C17_BlankSkipping ==
    /\ [][(InLoop /\ Matching(tokens, text) = {} /\ text[1] \in blank_chars) =>
            /\ text' = Tail(text)
            /\ produced' = produced
            /\ g_state' = "running"
         ]_vars
    /\ [][(InLoop /\ g_state' = "running" /\ text' # text) =>
            /\ Matching(tokens, text) = {}
            /\ text[1] \in blank_chars
            /\ text' = Tail(text)
            /\ produced' = produced
         ]_vars
    /\ [][(InLoop /\ Matching(tokens, text) # {}) =>
            /\ text' = text
            /\ g_state' = "yield"
            /\ Len(produced') = Len(produced) + 1
         ]_vars
    /\ []((/\ op = "lex"
           /\ outcome # "running"
           /\ tokens = Lexer_init(TRUE)
           /\ blank_chars = CustomBlankChars
           /\ input = <<" ", "a", "(">>)
              => (/\ outcome = "returned"
                  /\ result = <<Token("LeftParen", <<"(">>), EndToken>>))

\* ' a(' has been lexed with blank_chars = {'a', ' '}
C17_Witness ==
    /\ op = "lex"
    /\ outcome = "returned"
    /\ tokens = Lexer_init(TRUE)
    /\ blank_chars = CustomBlankChars
    /\ input = <<" ", "a", "(">>
    /\ Len(result) = 2

----------------------------------------------------------------------------
(* C18: laziness.  In every state of Lexer.parse in which the parser has   *)
(* its lookahead (it is constructed and is not inside _forward, fetching   *)
(* the next one), the number of tokens the lexer has produced is the       *)
(* parser's consumed-token count plus one, the lookahead; the lexer is     *)
(* suspended on the token that is the lookahead and has scanned no text    *)
(* beyond it.  Inside _forward the lexer is at most one token further.     *)

\* Parser.__init__ has returned
Constructed == current_token # NoToken

\* the parser is inside _forward
Forwarding ==
    /\ outcome = "running"
    /\ stack # <<>>
    /\ Top.pc \in {"forward_nud", "forward_led", "forward_match"}

\* the characters of the input the lexer has gone over
Scanned ==
    Len(input) - Len(text) + (IF g_state = "yield" THEN g_match ELSE 0)

C18_Laziness ==
    op = "parse" =>
        /\ (Constructed /\ ~Forwarding) =>
              /\ Len(produced) = current_pos + 1
              /\ current_token = produced[current_pos + 1]
              /\ g_state \in {"yield", "yield_end", "done", "raised"}
              /\ g_state = "yield" =>
                    /\ SubSeq(text, 1, g_match) = current_token.text
                    /\ DeletesOnlyBlanks(ConcatTexts(produced),
                                         SubSeq(input, 1, Scanned), blank_chars)
              /\ g_state = "raised" => text # <<>>
        /\ Forwarding => Len(produced) \in {current_pos + 1, current_pos + 2}
        /\ (stack = <<>> /\ outcome = "running") => (produced = <<>> /\ text = input)
        /\ (stack # <<>> /\ Top.fn = "__init__") => Len(produced) <= 1

\* '2+2': the parser is about to call the nud of 2, its lookahead is '+' and
\* the lexer has not gone over the last '2'
C18_Witness ==
    /\ op = "parse"
    /\ input = <<"2", "+", "2">>
    /\ At("expression", "nud")
    /\ current_pos = 1
    /\ Len(produced) = 2
    /\ Scanned = 2

----------------------------------------------------------------------------
(* C20: associativity from binding powers.  A binary operator whose led    *)
(* parses its right operand with expression(rbp = its own lbp) groups a    *)
(* chain of operators of that lbp to the left (a - b - c is (a - b) - c);  *)
(* one that uses rbp = its own lbp - 1 groups the chain to the right       *)
(* (a ~ b ~ c is a ~ (b ~ c)).  Minus is of the first kind, RightMinus of  *)
(* the second, and both subtract.                                          *)

\* s is a chain of integer literals with the character c between them
RECURSIVE IsChain(_, _)
IsChain(s, c) ==
    LET n == RunLen(Digits, s)
    IN  /\ n >= 1
        /\ \/ Len(s) = n
           \/ Len(s) > n + 1 /\ s[n + 1] = c /\ IsChain(Drop(s, n + 1), c)

\* the values of the literals of a chain
RECURSIVE Operands(_)
Operands(s) ==
    LET n == RunLen(Digits, s)
    IN  IF Len(s) = n THEN <<int(s)>>
        ELSE <<int(SubSeq(s, 1, n))>> \o Operands(Drop(s, n + 1))

\* ((v1 - v2) - v3) - ...
RECURSIVE GroupedLeft(_)
GroupedLeft(v) ==
    IF Len(v) = 1 THEN v[1] ELSE GroupedLeft(SubSeq(v, 1, Len(v) - 1)) - v[Len(v)]

\* v1 - (v2 - (v3 - ...))
RECURSIVE GroupedRight(_)
GroupedRight(v) == IF Len(v) = 1 THEN v[1] ELSE v[1] - GroupedRight(Tail(v))

C20_Associativity ==
    /\ (op = "parse" /\ tokens = OperatorLexer /\ outcome # "running")
          => /\ IsChain(input, "-")
                  => (outcome = "returned" /\ result = GroupedLeft(Operands(input)))
             /\ IsChain(input, "~")
                  => (outcome = "returned" /\ result = GroupedRight(Operands(input)))
    /\ \A i \in 1..(Len(stack) - 1) :
          (stack[i].fn = "led" /\ stack[i].pc = "combine")
              => /\ stack[i + 1].fn = "expression"
                 /\ stack[i + 1].rbp = IF stack[i].tok.kind = "RightMinus"
                                       THEN lbp(stack[i].tok.kind) - 1
                                       ELSE lbp(stack[i].tok.kind)

\* '7~4~2' has been parsed to 7 - (4 - 2)
C20_Witness ==
    /\ op = "parse"
    /\ tokens = OperatorLexer
    /\ input = <<"7", "~", "4", "~", "2">>
    /\ outcome = "returned"
    /\ result = 5

----------------------------------------------------------------------------
(* C19: non-interference.  When two lex or parse calls on one Lexer are    *)
(* advanced in any interleaving of their token pulls, each produces the    *)
(* token sequence, or the error, it produces when run alone, and lexing    *)
(* leaves the Lexer's registered-token list and blank-character set as     *)
(* they were.                                                              *)

\* what the generator of lex(s) gives when it alone is run to its end: the
\* tokens it yields and how it ends, by the statements of Lexer.lex; acc is
\* what it has yielded, and it is not run beyond MaxYield tokens once it
\* yields tokens of no character
RECURSIVE lex_alone(_, _, _, _)
lex_alone(toks, blanks, s, acc) ==
    IF s = <<>>
    THEN [produced |-> Append(acc, EndToken), end |-> "done", text |-> s]
    ELSE LET got == get_token(toks, s)
         IN  IF got[1] # "None" /\ got[2].end = 0 /\ Len(acc) >= MaxYield
             THEN [produced |-> acc, end |-> "cut", text |-> s]
             ELSE IF got[1] # "None"
             THEN lex_alone(toks, blanks, Drop(s, got[2].end),
                            Append(acc, Token(got[1], SubSeq(s, 1, got[2].end))))
             ELSE IF s[1] \in blanks THEN lex_alone(toks, blanks, Tail(s), acc)
             ELSE [produced |-> acc, end |-> "raised", text |-> s]

Alone(c) == lex_alone(tokens, blank_chars, c.input, <<>>)

\* the call c is over, or its generator is
Over(c) == c.outcome # "running" \/ c.g_state \in {"yield_end", "done", "raised"}

\* the call c, once over, has the tokens, and the end, of its text lexed
\* alone: all of them, or the first of them when a parse call ended before
\* it had pulled them all
AsAlone(c) ==
    (c.op \in {"lex", "parse"} /\ Over(c)) =>
        LET a == Alone(c)
        IN  /\ IsPrefix(c.produced, a.produced)
            /\ c.g_state \in {"yield_end", "done"}
                  => (a.end = "done" /\ c.produced = a.produced)
            /\ c.g_state = "raised"
                  => /\ a.end = "raised"
                     /\ c.produced = a.produced
                     /\ c.error = ValueError("Invalid character %s in %s",
                                             a.text[1], a.text)
            /\ (c.op = "lex" /\ c.outcome = "returned")
                  => (a.end = "done" /\ c.result = a.produced)
            /\ (c.op = "lex" /\ c.outcome = "raised")
                  => (a.end = "raised" /\ c.g_state = "raised")

C19_NonInterference ==
    /\ [](AsAlone(ThisCall) /\ AsAlone(other))
    /\ [][tokens' = tokens /\ blank_chars' = blank_chars]_vars
    /\ [][other' = other \/ (other' = ThisCall /\ ThisCall' = other)]_vars
    /\ [][other' = other =>
            \/ produced' = produced
            \/ Len(produced') = Len(produced) + 1 /\ IsPrefix(produced, produced')
         ]_vars

\* two calls with different texts have each given their first token and
\* neither is over
C19_Witness ==
    /\ other.op = "lex"
    /\ op = "lex"
    /\ input = <<"2", "+">>
    /\ other.input = <<"+", "$">>
    /\ produced = <<Token("Integer", <<"2">>)>>
    /\ other.produced = <<Token("Add", <<"+">>)>>
    /\ outcome = "running"
    /\ other.outcome = "running"

----------------------------------------------------------------------------
(* C21: consume.  A successful Parser.consume returns the token that was   *)
(* the lookahead before the call, makes the next token of the underlying   *)
(* sequence the new lookahead and adds exactly one to the position.  So in *)
(* every state the position is the number of successful consumes, it never *)
(* decreases, and the tokens consume has returned are the first tokens of  *)
(* the underlying sequence, in its order, none left out and none twice.    *)

\* consume has saved the lookahead and is inside _forward
InConsume == Forwarding /\ g_state # "running"

C21_Consume ==
    /\ [](/\ current_pos = Len(consumed)
          /\ consumed = SubSeq(produced, 1, current_pos)
          /\ (Constructed /\ g_state # "running")
                => (current_pos < Len(produced) /\ current_token = produced[current_pos + 1])
          /\ InConsume => Top.prev = current_token)
    /\ [][other' = other => current_pos' >= current_pos]_vars
    /\ [][(other' = other /\ current_pos' # current_pos)
            => /\ InConsume
               /\ current_pos' = current_pos + 1
               /\ consumed' = Append(consumed, current_token)
               /\ current_token' = produced[current_pos + 2]
               /\ Len(produced) = current_pos + 2
         ]_vars
    /\ [][(other' = other /\ InConsume /\ outcome' = "running" /\ stack' # stack)
            => (current_pos' = current_pos + 1 /\ Top'.prev = current_token)
         ]_vars

\* '2+2' has been parsed: three consumes have returned 2, + and 2, and the
\* lookahead is the end token
C21_Witness ==
    /\ op = "parse"
    /\ input = <<"2", "+", "2">>
    /\ outcome = "returned"
    /\ current_pos = 3
    /\ consumed = <<Token("Integer", <<"2">>), Token("Add", <<"+">>),
                    Token("Integer", <<"2">>)>>
    /\ current_token = EndToken

----------------------------------------------------------------------------
(* C22: advancing past the sentinel.  On a token sequence that ends with   *)
(* the end sentinel, a consume made while the lookahead is the sentinel    *)
(* (the last token: the source has no more) fails with a syntax error; no  *)
(* consume returns the sentinel; after the failure the lookahead is still  *)
(* the sentinel and the position is what it was.  So from construction on  *)
(* the current token is defined in every state.                            *)

\* the underlying sequence ends with the end sentinel and holds no other:
\* what Lexer.lex yields, or such a sequence given to Parser directly
SentinelTerminated ==
    \/ op = "parse"
    \/ /\ op = "tokens"
       /\ input # <<>>
       /\ \A i \in 1..Len(input) : (input[i] = EndToken) <=> (i = Len(input))

\* a consume has been called with the sentinel as lookahead and has gone
\* into _forward
PastSentinel ==
    /\ stack # <<>>
    /\ Top.pc \in {"forward_nud", "forward_led", "forward_match"}
    /\ current_token = EndToken

C22_PastSentinel ==
    /\ [](SentinelTerminated =>
            /\ \A i \in 1..Len(consumed) : consumed[i] # EndToken
            /\ PastSentinel =>
                  /\ g_state \in {"running", "done"}
                  /\ text = <<>>
                  /\ outcome \in {"running", "raised"}
                  /\ outcome = "raised" =>
                        error = ParserSyntaxError("Unexpected end of token stream at %d.",
                                                  current_pos, NoToken, "")
            /\ (outcome = "raised" /\ current_token = EndToken) =>
                  (error.type = "ParserSyntaxError" /\ current_pos = Len(produced) - 1))
    /\ [][(SentinelTerminated /\ current_token = EndToken /\ other' = other)
            => (current_token' = EndToken /\ current_pos' = current_pos)]_vars
    /\ [][(Constructed /\ other' = other) => Constructed']_vars

\* '2+': the led of + asked for an expression, whose consume was made with
\* the end token as lookahead and failed
C22_Witness ==
    /\ op = "parse"
    /\ input = <<"2", "+">>
    /\ PastSentinel
    /\ outcome = "raised"
    /\ error = ParserSyntaxError("Unexpected end of token stream at %d.", 2, NoToken, "")
    /\ current_token = EndToken
    /\ current_pos = 2

----------------------------------------------------------------------------
(* C23: the text after the lookahead is not examined.  Lexer.parse(text)   *)
(* goes over the text only up to the end of the token that is the          *)
(* lookahead when the top-level expression returns.  An invalid character  *)
(* after that token is never reached: parse returns the value of the       *)
(* expression, where list(lexer.lex(text)) raises the lexical error.  With *)
(* the arithmetic token types, a well-formed expression followed by ')'    *)
(* returns its value, whatever follows the ')'.                            *)

\* the first k characters of the input are a well-formed expression and
\* the next one is a right parenthesis
ClosedAt(k) == input[k + 1] = ")" /\ WellFormed(SubSeq(input, 1, k))

C23_UnscannedTail ==
    (op = "parse" /\ tokens = ArithmeticLexer /\ outcome # "running") =>
        /\ outcome = "returned" =>
              /\ g_state \in {"yield", "yield_end"}
              /\ current_token = produced[Len(produced)]
              /\ text = Drop(input, Len(input) - Len(text))
              /\ g_state = "yield" => SubSeq(text, 1, g_match) = current_token.text
              /\ g_state = "yield_end" => Scanned = Len(input)
        /\ \A k \in 0..(Len(input) - 1) :
              ClosedAt(k) =>
                  /\ outcome = "returned"
                  /\ result = ValueOf(SubSeq(input, 1, k))
                  /\ current_token = Token("RightParen", <<")">>)
                  /\ g_state = "yield"
                  /\ Scanned = k + 1

\* '2 + 3 ) $' has been parsed to 5: the lexer is suspended on ')', has not
\* gone over ' $', and alone it raises on '$'
C23_Witness ==
    /\ op = "parse"
    /\ input = <<"2", " ", "+", " ", "3", " ", ")", " ", "$">>
    /\ outcome = "returned"
    /\ result = 5
    /\ current_token = Token("RightParen", <<")">>)
    /\ g_state = "yield"
    /\ Scanned = 7
    /\ Drop(text, g_match) = <<" ", "$">>
    /\ Alone(ThisCall).end = "raised"
    /\ Alone(ThisCall).text = <<"$">>

====
